---------------------------- MODULE Spec2Model ----------------------------
(***************************************************************************)
(* Conversation session of the chat client: the useChat hook (message      *)
(* state, persistence gating, send / retry / clear), the localStorage      *)
(* backed StorageService, the toast bus entry point and the UI controls    *)
(* that drive them (ChatInput, MessageBubble retry button, Sidebar).       *)
(*                                                                         *)
(* JavaScript values are modelled as follows.                              *)
(*   - an object is a record; an optional field that is absent is absent   *)
(*     from the record's DOMAIN;                                           *)
(*   - a value read back by JSON.parse is dynamically typed, so every      *)
(*     parsed value carries a tag `kind`;                                  *)
(*   - a Date is its epoch milliseconds, InvalidDate standing for NaN;     *)
(*     its JSON form is <<"iso", ms>>, or <<"null">> for an invalid date.  *)
(***************************************************************************)
EXTENDS Integers, Sequences, FiniteSets, TLC

VARIABLES
    \* ---- useChat state (src/unnamed/part_003:124-130)
    messages, isLoading, error, currentConversationId, hasUserMessage,
    \* ---- lifecycle of the hook instance and its pending gateway calls
    mounted, inflight,
    \* ---- ChatContext (src/frontend/src/contexts/ChatContext.tsx:11)
    activeConversationId,
    \* ---- Sidebar's snapshot of the stored conversations (part_006:19-21)
    sidebarConversations,
    \* ---- localStorage['agent-db-conversations']
    storage,
    \* ---- toast bus: id counter and the toasts handed to the listeners
    toastId, published,
    \* ---- generateId() and new Date()
    nextId, now,
    \* ---- observation of the run: counters, the last handler that ran,
    \*      the last record the persist effect saved, the last list() result
    sends, clears, sidebarOps, saveCount, lastSaved, lastEvent, listResult,
    \* ---- observation of direct calls of the StorageService: the last call,
    \*      the stored value it started from and the calls counted so far
    storeEvent,
    \* ---- toast bus (part_002): the registered handlers, the handlers whose
    \*      component has unmounted, each handler's toasts state, its
    \*      pending setTimeout timers
    listeners, retired, toasts, timers,
    \* ---- observation of the bus: the toasts each handler was called with,
    \*      the last bus operation and the operations counted so far
    received, busEvent,
    \* ---- useTypingEffect (hooks/useTypingEffect.ts): the hook's props and
    \*      state, the setInterval timers that are armed
    typing, intervals,
    \* ---- observation of the reveal: the last step, the ticks fired since
    \*      the effect last ran, the renders counted so far
    typingEvent,
    \* ---- ChatContainer (part_012:13) and its MessageBubbles
    \*      (MessageBubble.tsx:20): the id the container remembers as the
    \*      last message's, each mounted bubble's shouldAnimate by message id
    lastMessageId, bubbles,
    \* ---- ApiService.checkHealth (api.ts:51-63): the promise of the call
    healthCall,
    \* ---- useHealthCheck (hooks/useHealthCheck.ts:7-8, 35): its state, its
    \*      polling interval and the check it is waiting for
    healthHook,
    \* ---- observation of the health checks: the last step, the outcome of
    \*      the request it settled with, the checks started so far
    healthEvent

vars == << messages, isLoading, error, currentConversationId, hasUserMessage,
           mounted, inflight, activeConversationId, sidebarConversations,
           storage, toastId, published, nextId, now,
           sends, clears, sidebarOps, saveCount, lastSaved, lastEvent, listResult,
           storeEvent, listeners, retired, toasts, timers, received,
           busEvent, typing, intervals, typingEvent, lastMessageId, bubbles,
           healthCall, healthHook, healthEvent >>

healthVars == << healthCall, healthHook, healthEvent >>

bubbleVars == << lastMessageId, bubbles >>

typingVars == << typing, intervals, typingEvent >>

busVars == << listeners, retired, toasts, timers, received, busEvent >>

\* what no handler of the session touches
outsideSession == << storeEvent, busVars, typingVars, healthVars >>

sessionVars == << messages, isLoading, error, currentConversationId,
                  hasUserMessage, mounted, inflight, activeConversationId,
                  sidebarConversations, toastId, published, nextId, now,
                  sends, clears, sidebarOps, saveCount, lastSaved, lastEvent >>

\* the session without the toast counter and the log of published toasts
hookVars == << messages, isLoading, error, currentConversationId,
               hasUserMessage, mounted, inflight, activeConversationId,
               sidebarConversations, nextId, now,
               sends, clears, sidebarOps, saveCount, lastSaved, lastEvent >>

-----------------------------------------------------------------------------
(* Bounds of the model *)

\* user operations per run: sendMessage calls, clearMessages calls and
\* "Nova Conversa" clicks together
MaxOps == 3
\* entries of a persisted array enumerated for the decoder
MaxEntries == 2
\* direct saveConversation / deleteConversation calls per run
MaxStoreOps == 2

\* operations on the toast bus per run: subscriptions, unsubscriptions,
\* showToast calls and manual dismissals together
MaxBusOps == 5

\* renders of one useTypingEffect caller that run its effect or its cleanup:
\* the mount, changes of its props, the unmount
MaxTypingOps == 3

\* health checks started per run: checkHealth calls of the ApiService and
\* checks of the polling hook together
MaxHealthChecks == 3

-----------------------------------------------------------------------------
(* JavaScript helpers *)

Undefined == "<undefined>"
InvalidDate == 0 - 1

\* JS truthiness of a string-or-undefined value
Truthy(v) == v # Undefined /\ v # ""

\* a || b || c on string-or-undefined values
OrElse(a, b) == IF Truthy(a) THEN a ELSE b

Has(obj, field) == field \in DOMAIN obj

\* obj.field, undefined when the field is absent
Get(obj, field) == IF Has(obj, field) THEN obj[field] ELSE Undefined

\* { ...obj, field: value }
With(obj, field, value) == (field :> value) @@ obj

\* the object with the fields of obj that are in `fields`
RECURSIVE Pick(_, _)
Pick(obj, fields) ==
    IF fields = {} THEN <<>>
    ELSE LET f == CHOOSE g \in fields : TRUE
         IN  (f :> obj[f]) @@ Pick(obj, fields \ {f})

\* ({ field, ...rest }) => rest
Without(obj, field) ==
    IF Has(obj, field) THEN Pick(obj, DOMAIN obj \ {field}) ELSE obj

\* s.map(F)
MapSeq(F(_), s) == [i \in 1..Len(s) |-> F(s[i])]

SelectIndex(s, P(_)) ==
    IF \E i \in 1..Len(s) : P(s[i])
    THEN CHOOSE i \in 1..Len(s) : P(s[i]) /\ \A j \in 1..(i - 1) : ~P(s[j])
    ELSE 0

\* Date.prototype.toJSON
DateToJSON(d) == IF d = InvalidDate THEN <<"null">> ELSE <<"iso", d>>

\* new Date(v) for v read from parsed JSON (or undefined when absent)
NewDate(v) ==
    IF v = <<"absent">> THEN InvalidDate
    ELSE IF v = <<"null">> THEN 0
    ELSE v[2]

-----------------------------------------------------------------------------
(* Values read back by JSON.parse: every value carries its dynamic type *)

JNull == [kind |-> "null"]
JScalar == [kind |-> "scalar"]
JObject(fields) == [kind |-> "object", fields |-> fields]
JArray(items) == [kind |-> "array", items |-> items]

\* the three things localStorage.getItem can hand back
NoItem == [kind |-> "absent"]
EmptyText == [kind |-> "empty"]
InvalidText == [kind |-> "invalid"]
JsonText(value) == [kind |-> "json", value |-> value]

Ok(v) == [threw |-> FALSE, value |-> v]
Throw == [threw |-> TRUE, value |-> <<>>]

\* a date field of a parsed object, as new Date(...) receives it
DateField(fields, f) == IF Has(fields, f) THEN fields[f] ELSE <<"absent">>

\* part_004:24-27  (msg) => ({ ...msg, timestamp: new Date(msg.timestamp) })
DecodeMessage(msg) ==
    CASE msg.kind = "null" -> Throw
      [] msg.kind = "object" ->
            Ok(With(msg.fields, "timestamp",
                    NewDate(DateField(msg.fields, "timestamp"))))
      [] OTHER -> Ok([timestamp |-> InvalidDate])

\* xs.map(f) where f may throw: the first throw aborts the map
MapThrowing(F(_), items) ==
    LET results == MapSeq(F, items)
    IN  IF \E i \in 1..Len(results) : results[i].threw
        THEN Throw
        ELSE Ok(MapSeq(LAMBDA r : r.value, results))

\* part_004:19-28  (conv) => ({ ...conv, createdAt, updatedAt, messages })
DecodeConversation(conv) ==
    CASE conv.kind = "null" -> Throw
      [] conv.kind = "object" ->
            IF ~Has(conv.fields, "messages") THEN Throw
            ELSE IF conv.fields.messages.kind # "array" THEN Throw
            ELSE LET msgs == MapThrowing(DecodeMessage,
                                         conv.fields.messages.items)
                 IN  IF msgs.threw THEN Throw
                     ELSE Ok(With(With(With(conv.fields,
                          "createdAt",
                          NewDate(DateField(conv.fields, "createdAt"))),
                          "updatedAt",
                          NewDate(DateField(conv.fields, "updatedAt"))),
                          "messages", msgs.value))
      [] OTHER -> Throw

\* part_004:14-28  the try block of getConversations
GetConversationsTry(raw) ==
    CASE raw.kind \in {"absent", "empty"} -> Ok(<<>>)
      [] raw.kind = "invalid" -> Throw
      [] OTHER ->
            IF raw.value.kind # "array" THEN Throw
            ELSE MapThrowing(DecodeConversation, raw.value.items)

\* the same function with its catch clause left out
GetConversationsUncaught(raw) == GetConversationsTry(raw)

\* part_004:12-33  getConversations: the catch returns []
GetConversationsCall(raw) ==
    LET r == GetConversationsTry(raw)
    IN  IF r.threw THEN Ok(<<>>) ELSE r

GetConversations(raw) == GetConversationsCall(raw).value

\* JSON.stringify of a message / a conversation / the list
EncodeField(obj, field, F(_)) ==
    IF Has(obj, field) THEN With(obj, field, F(obj[field])) ELSE obj

EncodeMessage(m) == JObject(EncodeField(m, "timestamp", DateToJSON))

EncodeMessages(msgs) == JArray(MapSeq(EncodeMessage, msgs))

EncodeConversation(c) ==
    JObject(EncodeField(EncodeField(EncodeField(c,
            "createdAt", DateToJSON),
            "updatedAt", DateToJSON),
            "messages", EncodeMessages))

Stringify(conversations) ==
    JsonText(JArray(MapSeq(EncodeConversation, conversations)))

\* conversations.findIndex(c => c.id === id), 0 when there is none
FindIndex(conversations, id) ==
    SelectIndex(conversations, LAMBDA c : Get(c, "id") = id)

\* a save that pushes the record without looking for its id
SaveConversationPush(raw, conversation) ==
    Stringify(Append(GetConversations(raw), conversation))

\* part_004:35-50  saveConversation: the new value of the storage key
SaveConversation(raw, conversation) ==
    LET conversations == GetConversations(raw)
        index == FindIndex(conversations, conversation.id)
    IN  Stringify(IF index > 0
                  THEN [conversations EXCEPT ![index] = conversation]
                  ELSE Append(conversations, conversation))

\* part_004:52-59  deleteConversation: the new value of the storage key
DeleteConversation(raw, id) ==
    Stringify(SelectSeq(GetConversations(raw), LAMBDA c : Get(c, "id") # id))

-----------------------------------------------------------------------------
(* Program constants and fixed strings *)

\* part_003:157  content.slice(0, 50)
TitleLength == 50
\* part_003:205 and part_003:210  toast durations in milliseconds
SuccessToastMs == 2000
ErrorToastMs == 4000

GreetingText == "Ola! Sou o Assistente de Banco de Dados."
FallbackTitle == "Nova Conversa"
FallbackError == "Falha ao enviar mensagem"
SuccessText == "Resposta recebida!"

\* s.slice(0, n)
Slice(s, n) == SubSeq(s, 1, IF Len(s) < n THEN Len(s) ELSE n)

\* utils/uuid generateId(): the n-th identifier minted, never one minted
\* before and never one of a record that was already stored
GenId(n) == "id-" \o ToString(n)

\* the same generateId() called by the application shell for a new chat
ChatId(n) == "chat-" \o ToString(n)

-----------------------------------------------------------------------------
(* Inputs of the model *)

\* a question longer than the title of a conversation (60 characters)
LongContent == "quais clientes compraram mais de dez vezes no ultimo ano q2?"

\* what the user types (ChatInput hands over message.trim())
Contents == {"q1", LongContent}

\* response bodies of POST /api/chat
ResponseTexts == {"r1"}

\* rejections of the gateway call, as the catch clause reads them:
\* err.response?.data?.detail and err.message
ServiceError == [kind |-> "ServiceError", detail |-> "bad query",
                 message |-> "Request failed with status code 500"]
NetworkError == [kind |-> "NetworkError", detail |-> Undefined,
                 message |-> "Network Error"]
TimeoutError == [kind |-> "TimeoutError", detail |-> Undefined,
                 message |-> "timeout of 90000ms exceeded"]
Failures == {ServiceError, NetworkError, TimeoutError}

\* a conversation left in the store by an earlier session: one failed turn
OldUser == [id |-> "old-u", role |-> "user", content |-> "q1", timestamp |-> 1]
OldFailed ==
    [id |-> "old-a", role |-> "assistant",
     content |-> "Erro: Network Error", timestamp |-> 1,
     hasError |-> TRUE, originalUserMessage |-> "q1"]
OldConversation ==
    [id |-> "old-c", title |-> "q1", messages |-> <<OldUser, OldFailed>>,
     createdAt |-> 1, updatedAt |-> 1]

\* a second stored conversation: one answered turn
OtherUser == [id |-> "old-v", role |-> "user", content |-> "q2", timestamp |-> 1]
OtherAnswer ==
    [id |-> "old-b", role |-> "assistant", content |-> "r1", timestamp |-> 1]
OtherConversation ==
    [id |-> "old-d", title |-> "q2", messages |-> <<OtherUser, OtherAnswer>>,
     createdAt |-> 1, updatedAt |-> 1]

\* values of the storage key a session can start from
SessionStores ==
    { NoItem, InvalidText, Stringify(<<OldConversation>>) }

\* shapes an element of a persisted array can have
EntryShapes ==
    { JNull, JScalar,
      JObject([id |-> "x"]),
      JObject([id |-> "x", messages |-> JScalar]),
      JObject([id |-> "x", messages |-> JNull]),
      JObject([id |-> "x", messages |-> JArray(<<JNull>>)]),
      JObject([id |-> "x", messages |-> JArray(<<JScalar>>)]),
      EncodeConversation(OldConversation),
      EncodeConversation(OtherConversation) }

EntryLists == UNION { [1..n -> EntryShapes] : n \in 0..MaxEntries }

\* values of the storage key the decoder is run on
RawStores ==
    { NoItem, EmptyText, InvalidText,
      JsonText(JNull), JsonText(JScalar), JsonText(JObject([id |-> "x"])) }
    \cup { JsonText(JArray(items)) : items \in EntryLists }

-----------------------------------------------------------------------------
(* useChat: message constructors and the two effects *)

\* part_003:174-180 (attachments is undefined from every caller and is
\* dropped by JSON.stringify; the field is left out)
UserMessage(id, content, t) ==
    [id |-> id, role |-> "user", content |-> content, timestamp |-> t]

\* part_003:196-202
AssistantMessage(id, response, t) ==
    [id |-> id, role |-> "assistant", content |-> response.response,
     timestamp |-> t, responseData |-> response]

\* the same choice with the exception's message put first
ErrorMessageOfMessageFirst(err) ==
    OrElse(err.message, OrElse(err.detail, FallbackError))

\* part_003:208  err.response?.data?.detail || err.message || fallback
ErrorMessageOf(err) == OrElse(err.detail, OrElse(err.message, FallbackError))

\* part_003:215  the template string of the failed message
ErrorContent(errorMessage) == "Erro: " \o errorMessage

\* a failed message that carries neither the flag nor the text to resend
FailedMessageUnmarked(id, errorMessage, content, t) ==
    [id |-> id, role |-> "assistant", content |-> ErrorContent(errorMessage),
     timestamp |-> t]

\* part_003:212-219
FailedMessage(id, errorMessage, content, t) ==
    [id |-> id, role |-> "assistant", content |-> ErrorContent(errorMessage),
     timestamp |-> t, hasError |-> TRUE, originalUserMessage |-> content]

\* part_003:141-146
GreetingMessage(id, t) ==
    [id |-> id, role |-> "assistant", content |-> GreetingText,
     timestamp |-> t]

\* MessageBubble.tsx:19
HasError(m) == Has(m, "hasError") /\ m.hasError

\* a greeting that marks the conversation as having a user message
GreetingFlagSet == TRUE

\* part_003:148  setHasUserMessage(false) of the init effect's else branch
GreetingFlag == FALSE

\* part_003:132-150  the init effect: the state it sets for conversation cid
InitEffect(raw, cid, freshId, t) ==
    LET conversations == GetConversations(raw)
        index == FindIndex(conversations, cid)
    IN  IF index > 0
        THEN [messages |-> conversations[index].messages,
              hasUserMessage |-> TRUE, minted |-> 0]
        ELSE [messages |-> <<GreetingMessage(freshId, t)>>,
              hasUserMessage |-> GreetingFlag, minted |-> 1]

\* a persist effect that forgets the hasUserMessage gate
PersistGateNoFlag(msgs, hum) == Len(msgs) > 0

\* part_003:154  the gate of the persist effect
PersistGate(msgs, hum) == Len(msgs) > 0 /\ hum

\* a title taken from the latest user message
TitleOfLatest(msgs) ==
    LET users == { i \in 1..Len(msgs) : msgs[i].role = "user" }
    IN  IF users = {} THEN FallbackTitle
        ELSE OrElse(Slice(msgs[CHOOSE i \in users : \A j \in users : j <= i]
                              .content, TitleLength), FallbackTitle)

\* part_003:156-157
TitleOf(msgs) ==
    LET index == SelectIndex(msgs, LAMBDA m : m.role = "user")
    IN  IF index = 0 THEN FallbackTitle
        ELSE OrElse(Slice(msgs[index].content, TitleLength), FallbackTitle)

\* a persist effect that saves the messages as they are
KeepResponseData(msgs) == msgs

\* part_003:162  messages.map(({ responseData, ...msg }) => msg)
StripResponseData(msgs) == MapSeq(LAMBDA m : Without(m, "responseData"), msgs)

\* part_003:159-165  the record handed to saveConversation
PersistRecord(msgs, cid, t) ==
    [id |-> cid, title |-> TitleOf(msgs),
     messages |-> StripResponseData(msgs), createdAt |-> t, updatedAt |-> t]

\* part_003:153-168  the persist effect, run after a render in which
\* messages, currentConversationId or hasUserMessage changed
PersistEffect(msgs, cid, hum) ==
    IF PersistGate(msgs, hum)
    THEN /\ storage' = SaveConversation(storage, PersistRecord(msgs, cid, now'))
         /\ lastSaved' = PersistRecord(msgs, cid, now')
         /\ saveCount' = saveCount + 1
    ELSE UNCHANGED << storage, lastSaved, saveCount >>

\* part_012:112  isNew={message.id === lastMessageId && message.role ===
\* 'assistant'}
IsNew(m, last) == m.id = last /\ m.role = "assistant"

\* a bubble that animates whatever it shows
ShouldAnimateAll(isNew, m) == TRUE

\* MessageBubble.tsx:17-20  useState(isNew && !isUser && !hasError)
ShouldAnimate(isNew, m) == isNew /\ m.role # "user" /\ ~HasError(m)

\* part_012:17-22, 108-115  ChatContainer renders the list the handler left:
\* a bubble is mounted for every message that had none, with the
\* lastMessageId of that render, bubbles of messages that are gone unmount
\* and mounted bubbles keep their state (key={message.id}); then the effect
\* stores the id of the last message
Render ==
    /\ bubbles' =
          [id \in { messages'[i].id : i \in 1..Len(messages') } |->
              IF id \in DOMAIN bubbles THEN bubbles[id]
              ELSE LET m == messages'[CHOOSE i \in 1..Len(messages') :
                                         messages'[i].id = id]
                   IN  ShouldAnimate(IsNew(m, lastMessageId), m)]
    /\ lastMessageId' = IF Len(messages') > 0
                        THEN messages'[Len(messages')].id
                        ELSE lastMessageId

\* useTypingEffect.ts:9  speed = 30; MessageBubble.tsx:32  speed: 20
DefaultSpeed == 30
BubbleSpeed == 20

\* an effect cleanup that leaves the interval armed
KeepInterval(ivs, run) == ivs

\* useTypingEffect.ts:34-35  clearInterval(interval) of the effect run `run`
ClearInterval(ivs, run) == { iv \in ivs : iv.run # run }

\* useTypingEffect.ts:14-22  what the effect sets when it runs
EffectState(text, speed, enabled, run) ==
    [mounted |-> TRUE, text |-> text, speed |-> speed, enabled |-> enabled,
     displayedText |-> IF enabled THEN "" ELSE text,
     isTyping |-> enabled, run |-> run]

\* useTypingEffect.ts:22-32  let currentIndex = 0; setInterval(...)
EffectIntervals(ivs, text, enabled, run) ==
    IF enabled
    THEN ivs \cup {[run |-> run, text |-> text, currentIndex |-> 0]}
    ELSE ivs

\* the components that call useToasts: the application's ToastContainer,
\* rendered with the default maxToasts (Toast.tsx:9-10, part_002:21), and a
\* caller that keeps two toasts
DefaultMaxToasts == 5
Handlers == {"h1", "h2"}
MaxToastsOf == [h1 |-> DefaultMaxToasts, h2 |-> 2]

ToastIds(list) == { list[i].id : i \in 1..Len(list) }

\* prev.filter(t => t.id !== id)  (part_002:30, 42)
FilterOut(list, id) == SelectSeq(list, LAMBDA t : t.id # id)

\* a handler that puts the new toast last
Appended(list, toast, maxToasts) == Slice(list \o <<toast>>, maxToasts)

\* part_002:26  [toast, ...prev].slice(0, maxToasts)
Prepend(list, toast, maxToasts) == Slice(<<toast>> \o list, maxToasts)

\* a handler that arms a timer for every toast
StartsTimerAlways(toast) == TRUE

\* part_002:28  toast.duration && toast.duration > 0  (showToast always
\* passes a number: 0 is falsy)
StartsTimer(toast) == toast.duration # 0 /\ toast.duration > 0

\* a fan-out that stops after the first listener
NotifiedFirstOnly(ls) == IF ls = {} THEN {} ELSE {CHOOSE h \in ls : TRUE}

\* part_002:18  listeners.forEach(listener => listener(toast))
Notified(ls) == ls

\* part_002:18, 25-35  every registered handleShowToast runs with the toast:
\* it puts the toast first in its list and arms a timer for it
FanOut(toast) ==
    /\ toasts' = [h \in Handlers |->
                     IF h \in Notified(listeners)
                     THEN Prepend(toasts[h], toast, MaxToastsOf[h])
                     ELSE toasts[h]]
    /\ received' = [h \in Handlers |->
                       IF h \in Notified(listeners)
                       THEN Append(received[h], toast.id)
                       ELSE received[h]]
    /\ timers' = timers \cup
                     { [h |-> h, id |-> toast.id] :
                         h \in { g \in Notified(listeners) : StartsTimer(toast) } }

NewToast(message, type, duration) ==
    [id |-> "toast-" \o ToString(toastId), message |-> message,
     type |-> type, duration |-> duration]

\* part_002:15-19  showToast: the next id, the toast given to every listener
ShowToast(message, type, duration) ==
    /\ published' = Append(published, NewToast(message, type, duration))
    /\ toastId' = toastId + 1
    /\ FanOut(NewToast(message, type, duration))

\* the handler of the hook that ran last, the list it started from and its
\* argument; `opened` remembers the last run of the init effect (the id, what
\* it found, and the sends and store writes counted until then) and
\* `retries` counts the clicks on a retry button
Event(op, arg) ==
    [op |-> op, before |-> messages, arg |-> arg,
     opened |-> IF op \in {"mount", "clear"}
                THEN [id |-> arg.id, found |-> arg.found,
                      sends |-> sends, saves |-> saveCount]
                ELSE lastEvent.opened,
     retries |-> lastEvent.retries + (IF op = "retry" THEN 1 ELSE 0)]

\* part_003:204  setMessages(prev => [...prev, m]) written without prev
ReplaceMessages(prev, m) == <<m>>

\* part_003:182, 204, 220  setMessages(prev => [...prev, m])
AppendMessage(prev, m) == Append(prev, m)

\* setIsLoading(false) placed at the end of the try block only
LoadingAfterTryOnly(ok) == ~ok

\* part_003:221-223  finally { setIsLoading(false) }: isLoading once the
\* call has settled, whether it resolved (ok) or rejected
LoadingAfterSettle(ok) == FALSE

\* clearMessages that keeps the conversation id it had
ClearKeepsConversationId(newId) == currentConversationId

\* part_003:229-230  const newId = generateId(); setCurrentConversationId(newId)
ClearedConversationId(newId) == newId

\* part_003:207-208  whether reading err in the catch clause throws, so that
\* the rejection would leave sendMessage: only a null or undefined err does
CatchThrows(err) == err.kind = "nullish"

NoRecord == [id |-> Undefined]

-----------------------------------------------------------------------------
(* The session: initial state and handlers *)

\* the run may still take a user operation
Budget == sends + clears + sidebarOps < MaxOps

IdsOf(conversations) == MapSeq(LAMBDA c : Get(c, "id"), conversations)

SeqToSet(s) == { s[i] : i \in 1..Len(s) }

\* no StorageService call was made directly
IdleStore ==
    storeEvent = [op |-> "none", arg |-> Undefined, before |-> NoItem, n |-> 0]

\* what the GET /health request can end with: a 2xx answer with a JSON body
\* (the server healthy, or reporting itself degraded), a 2xx answer whose
\* body is not JSON, a non-2xx status, no connection, no answer in time
HealthyBody == [status |-> "healthy", database |-> "connected",
                collections |-> 1]
DegradedBody == [status |-> "degraded", database |-> "disconnected",
                 collections |-> 0]
HealthOutcomes ==
    { [kind |-> "ok", body |-> HealthyBody],
      [kind |-> "ok", body |-> DegradedBody],
      [kind |-> "notJson", body |-> Undefined],
      [kind |-> "status500", body |-> Undefined],
      [kind |-> "network", body |-> Undefined],
      [kind |-> "timeout", body |-> Undefined] }

Failed(outcome) == outcome.kind # "ok"

\* api.ts:33-47, 53  this.api.get('/health'): axios resolves with the parsed
\* body of a 2xx answer (a body that is not JSON is handed over as text) and
\* rejects on another status, on no connection and after its timeout; the
\* response interceptor logs the error and rejects with it again
AxiosGet(outcome) ==
    CASE outcome.kind = "ok" -> Ok([data |-> outcome.body])
      [] outcome.kind = "notJson" -> Ok([data |-> "<html>"])
      [] outcome.kind = "status500" ->
            [threw |-> TRUE,
             value |-> [message |-> "Request failed with status code 500"]]
      [] outcome.kind = "network" ->
            [threw |-> TRUE, value |-> [message |-> "Network Error"]]
      [] outcome.kind = "timeout" ->
            [threw |-> TRUE,
             value |-> [message |-> "timeout of 60000ms exceeded"]]

\* a checkHealth without its catch clause
CheckHealthUncaught(outcome) == AxiosGet(outcome)

\* api.ts:51-63  checkHealth: response.data, or the unhealthy result built
\* in the catch clause
CheckHealth(outcome) ==
    LET response == AxiosGet(outcome)
    IN  IF response.threw
        THEN Ok([status |-> "unhealthy", database |-> "disconnected",
                 collections |-> 0,
                 message |-> "Failed to connect to server: "
                              \o response.value.message])
        ELSE Ok(response.value.data)

\* useHealthCheck.ts:11-24  fetch with AbortSignal.timeout(5000): isOnline
\* is data.status === 'healthy' for an ok answer whose body parses, false
\* for every other answer and in the catch clause
OnlineAfter(outcome, isOnline) ==
    IF outcome.kind = "ok" THEN outcome.body.status = "healthy" ELSE FALSE

\* api.ts:51, useHealthCheck.ts:7-8  nothing has asked for the health yet
IdleHealth ==
    /\ healthCall = [state |-> "idle", result |-> Undefined]
    /\ healthHook = [mounted |-> FALSE, isOnline |-> FALSE,
                     isChecking |-> TRUE, interval |-> FALSE,
                     pending |-> FALSE]
    /\ healthEvent = [op |-> "none", outcome |-> Undefined, n |-> 0]

\* part_012:13  useState(null); no MessageBubble is mounted
IdleBubbles ==
    /\ lastMessageId = Undefined
    /\ bubbles = [id \in {} |-> FALSE]

\* useTypingEffect.ts:10-11  no component has called useTypingEffect yet
IdleTyping ==
    /\ typing = [mounted |-> FALSE, text |-> "", speed |-> DefaultSpeed,
                 enabled |-> FALSE, displayedText |-> "", isTyping |-> FALSE,
                 run |-> 0]
    /\ intervals = {}
    /\ typingEvent = [op |-> "none", run |-> 0, ticks |-> 0, n |-> 0]

\* part_002:12-13, 22  no component has called useToasts yet
IdleBus ==
    /\ listeners = {}
    /\ retired = {}
    /\ toasts = [h \in Handlers |-> <<>>]
    /\ timers = {}
    /\ received = [h \in Handlers |-> <<>>]
    /\ busEvent = [op |-> "none", h |-> Undefined, id |-> Undefined, n |-> 0]

\* The application before useChat is first rendered: ChatProvider holds no
\* active id, Sidebar has read the store once, no toast was published.
\* useChat(conversationId) takes the id of its first render from its caller
\* (part_003:123, part_012:11); the sidebar steps taken before Mount give
\* that first render each id the caller can hand over: none, a stored
\* conversation's, a new chat's.
Init ==
    /\ storage \in SessionStores
    /\ messages = <<>>
    /\ isLoading = FALSE
    /\ error = Undefined
    /\ currentConversationId = Undefined
    /\ hasUserMessage = FALSE
    /\ mounted = FALSE
    /\ inflight = {}
    /\ activeConversationId = Undefined
    /\ sidebarConversations = IdsOf(GetConversations(storage))
    /\ toastId = 0
    /\ published = <<>>
    /\ nextId = 0
    /\ now = 2
    /\ sends = 0
    /\ clears = 0
    /\ sidebarOps = 0
    /\ saveCount = 0
    /\ lastSaved = NoRecord
    /\ lastEvent = [op |-> "none", before |-> <<>>, arg |-> Undefined,
                    opened |-> [id |-> Undefined, found |-> FALSE,
                                sends |-> 0, saves |-> 0],
                    retries |-> 0]
    /\ listResult = [called |-> FALSE, threw |-> FALSE, value |-> <<>>]
    /\ IdleStore
    /\ IdleBus
    /\ IdleTyping
    /\ IdleBubbles
    /\ IdleHealth

\* part_003:123-168  first render of useChat(conversationId) and its effects:
\* the id is the prop or a minted one; the init effect loads or greets; the
\* persist effect of this render sees the empty list and writes nothing, and
\* runs again on the render that follows
Mount ==
    /\ ~mounted
    /\ currentConversationId = Undefined
    /\ LET minted == IF Truthy(activeConversationId) THEN 0 ELSE 1
           cid == IF Truthy(activeConversationId)
                  THEN activeConversationId ELSE GenId(nextId)
           loaded == InitEffect(storage, cid, GenId(nextId + minted), now)
       IN  /\ mounted' = TRUE
           /\ currentConversationId' = cid
           /\ messages' = loaded.messages
           /\ hasUserMessage' = loaded.hasUserMessage
           /\ nextId' = nextId + minted + loaded.minted
           /\ now' = now
           /\ lastEvent' = Event("mount", [id |-> cid,
                                           found |-> loaded.minted = 0])
           /\ PersistEffect(loaded.messages, cid, loaded.hasUserMessage)
    /\ UNCHANGED << isLoading, error, inflight, activeConversationId,
                    sidebarConversations, toastId, published, sends, clears,
                    sidebarOps, listResult >>
    /\ UNCHANGED outsideSession
    /\ Render

\* part_006:85  a click on a conversation of the sidebar.  ChatContainer
\* renders again with useChat(id), whose useState keeps its first value
\* (part_003:127-129): no state of the hook changes and no effect runs.
SelectConversation(id) ==
    /\ Budget
    /\ id # activeConversationId
    /\ sidebarOps' = sidebarOps + 1
    /\ activeConversationId' = id
    /\ UNCHANGED << messages, isLoading, error, currentConversationId,
                    hasUserMessage, mounted, inflight, sidebarConversations,
                    storage, toastId, published, nextId, now, sends, clears,
                    saveCount, lastSaved, lastEvent, listResult >>
    /\ UNCHANGED outsideSession
    /\ Render

\* part_001:11-14  handleNewChat ("Nova Conversa")
NewChat ==
    /\ Budget
    /\ sidebarOps' = sidebarOps + 1
    /\ activeConversationId' = ChatId(sidebarOps)
    /\ UNCHANGED << messages, isLoading, error, currentConversationId,
                    hasUserMessage, mounted, inflight, sidebarConversations,
                    storage, toastId, published, nextId, now, sends, clears,
                    saveCount, lastSaved, lastEvent, listResult >>
    /\ UNCHANGED outsideSession
    /\ Render

\* part_006:35-38  handleDeleteConversation
SidebarDelete(id) ==
    /\ Budget
    /\ sidebarOps' = sidebarOps + 1
    /\ storage' = DeleteConversation(storage, id)
    /\ sidebarConversations' = IdsOf(GetConversations(storage'))
    /\ UNCHANGED << messages, isLoading, error, currentConversationId,
                    hasUserMessage, mounted, inflight, activeConversationId,
                    toastId, published, nextId, now, sends, clears,
                    saveCount, lastSaved, lastEvent, listResult >>
    /\ UNCHANGED outsideSession
    /\ Render

\* every pending call has seen another Send or a Clear run meanwhile
Interleave(calls) == { [c EXCEPT !.interleaved = TRUE] : c \in calls }

\* part_003:170-194  sendMessage up to its await: the optimistic append, the
\* flags, the gateway call, and the persist effect of the render that follows
SendMessage(content, op, arg) ==
    /\ mounted
    /\ Budget
    /\ sends' = sends + 1
    /\ messages' = AppendMessage(messages,
                                  UserMessage(GenId(nextId), content, now))
    /\ nextId' = nextId + 1
    /\ hasUserMessage' = TRUE
    /\ isLoading' = TRUE
    /\ error' = Undefined
    /\ inflight' = Interleave(inflight) \cup
                   { [n |-> sends + 1, content |-> content,
                      conversationId |-> currentConversationId,
                      atCall |-> messages, interleaved |-> FALSE,
                      via |-> op] }
    /\ now' = now
    /\ lastEvent' = Event(op, arg)
    /\ PersistEffect(messages', currentConversationId, TRUE)
    /\ UNCHANGED << currentConversationId, mounted, activeConversationId,
                    sidebarConversations, toastId, published, clears,
                    sidebarOps, listResult >>
    /\ UNCHANGED outsideSession
    /\ Render

\* part_013:14-20  ChatInput.handleSubmit: message.trim() && !disabled
SubmitInput(content) ==
    /\ Truthy(content)
    /\ ~isLoading
    /\ SendMessage(content, "submit", content)

\* a retry button that resends the text of the failed bubble
RetryArgumentShown(m) == m.content

\* MessageBubble.tsx:119  onRetry(extendedMessage.originalUserMessage!)
RetryArgument(m) == m.originalUserMessage

\* MessageBubble.tsx:115-125  the retry button of the i-th bubble
Retry(i) ==
    /\ i \in 1..Len(messages)
    /\ HasError(messages[i])
    /\ Truthy(Get(messages[i], "originalUserMessage"))
    /\ SendMessage(RetryArgument(messages[i]), "retry", i)

\* part_003:196-205 and 221-223  the gateway call of `call` resolved
Resolve(call, text) ==
    /\ mounted
    /\ call \in inflight
    /\ inflight' = Interleave(inflight \ {call})
    /\ now' = now + 1
    /\ messages' = AppendMessage(messages,
                                  AssistantMessage(GenId(nextId),
                                                   [response |-> text,
                                                    conversation_id |->
                                                        call.conversationId],
                                                   now'))
    /\ nextId' = nextId + 1
    /\ ShowToast(SuccessText, "success", SuccessToastMs)
    /\ isLoading' = LoadingAfterSettle(TRUE)
    /\ lastEvent' = Event("resolve", [call |-> call, text |-> text])
    /\ PersistEffect(messages', currentConversationId, hasUserMessage)
    /\ UNCHANGED << error, currentConversationId, hasUserMessage, mounted,
                    activeConversationId, sidebarConversations, sends, clears,
                    sidebarOps, listResult >>
    /\ UNCHANGED outsideSession
    /\ Render

\* part_003:207-223  the gateway call of `call` rejected with err
Reject(call, err) ==
    /\ mounted
    /\ call \in inflight
    /\ inflight' = Interleave(inflight \ {call})
    /\ now' = now + 1
    /\ error' = ErrorMessageOf(err)
    /\ ShowToast(ErrorMessageOf(err), "error", ErrorToastMs)
    /\ messages' = AppendMessage(messages,
                                  FailedMessage(GenId(nextId),
                                                ErrorMessageOf(err),
                                                call.content, now'))
    /\ nextId' = nextId + 1
    /\ isLoading' = LoadingAfterSettle(FALSE)
    /\ lastEvent' = Event("reject", [call |-> call, err |-> err,
                                     propagated |-> CatchThrows(err)])
    /\ PersistEffect(messages', currentConversationId, hasUserMessage)
    /\ UNCHANGED << currentConversationId, hasUserMessage, mounted,
                    activeConversationId, sidebarConversations, sends, clears,
                    sidebarOps, listResult >>
    /\ UNCHANGED outsideSession
    /\ Render

\* part_003:226-231  clearMessages, then the effects of the render that
\* follows: the persist effect sees the empty list and writes nothing, the
\* init effect runs when the id changed (part_003:132-150); and the persist
\* effect of the render after that
ClearMessages ==
    /\ mounted
    /\ Budget
    /\ clears' = clears + 1
    /\ LET newId == ClearedConversationId(GenId(nextId))
           loaded == IF newId # currentConversationId
                     THEN InitEffect(storage, newId, GenId(nextId + 1), now)
                     ELSE [messages |-> <<>>, hasUserMessage |-> FALSE,
                           minted |-> 0]
       IN  /\ currentConversationId' = newId
           /\ messages' = loaded.messages
           /\ hasUserMessage' = loaded.hasUserMessage
           /\ nextId' = nextId + 1 + loaded.minted
           /\ now' = now
           /\ lastEvent' = Event("clear", [id |-> newId,
                                           found |-> loaded.minted = 0,
                                           previous |-> currentConversationId])
           /\ PersistEffect(loaded.messages, newId, loaded.hasUserMessage)
    /\ inflight' = Interleave(inflight)
    /\ UNCHANGED << isLoading, error, mounted, activeConversationId,
                    sidebarConversations, toastId, published, sends,
                    sidebarOps, listResult >>
    /\ UNCHANGED outsideSession
    /\ Render

Next ==
    \/ Mount
    \/ \E id \in SeqToSet(sidebarConversations) : SelectConversation(id)
    \/ NewChat
    \/ \E id \in SeqToSet(sidebarConversations) : SidebarDelete(id)
    \/ \E content \in Contents : SubmitInput(content)
    \/ \E i \in 1..Len(messages) : Retry(i)
    \/ \E call \in inflight, text \in ResponseTexts : Resolve(call, text)
    \/ \E call \in inflight, err \in Failures : Reject(call, err)
    \/ ClearMessages

Spec == Init /\ [][Next]_vars

\* the gateway call of some pending Send settles: it leaves the pending
\* calls.  Among the steps of Next these are the steps of Resolve and Reject
Settle ==
    /\ mounted
    /\ \E call \in inflight : inflight' = Interleave(inflight \ {call})

\* axios gives every request a timeout (api.ts:34, api.ts:85-87): a pending
\* call always resolves or rejects
SpecLive == Spec /\ WF_inflight(Settle)

-----------------------------------------------------------------------------
(* The session whose component unmounts, with Sends still pending *)

\* a state update that reaches an unmounted component and is applied
AppliedAfterUnmount(current, updated) == updated

\* part_003:204, 220, 222  setMessages / setIsLoading called after the
\* component has unmounted: React drops the update, no render follows and
\* no effect runs
DroppedAfterUnmount(current, updated) == current

\* the component that renders useChat unmounts: its bubbles go with it; the
\* gateway calls it started are left pending (sendMessage holds no
\* AbortController, part_003:187-194)
Unmount ==
    /\ mounted
    /\ mounted' = FALSE
    /\ bubbles' = [id \in {} |-> FALSE]
    /\ lastMessageId' = Undefined
    /\ lastEvent' = Event("unmount", Undefined)
    /\ UNCHANGED << messages, isLoading, error, currentConversationId,
                    hasUserMessage, inflight, activeConversationId,
                    sidebarConversations, storage, toastId, published, nextId,
                    now, sends, clears, sidebarOps, saveCount, lastSaved,
                    listResult >>
    /\ UNCHANGED outsideSession

\* part_003:196-205, 221-223  the call resolves after the unmount: the
\* continuation of sendMessage runs, mints an id, publishes its toast
ResolveUnmounted(call, text) ==
    /\ ~mounted
    /\ call \in inflight
    /\ inflight' = inflight \ {call}
    /\ now' = now + 1
    /\ messages' = DroppedAfterUnmount(messages,
                        AppendMessage(messages,
                            AssistantMessage(GenId(nextId),
                                             [response |-> text,
                                              conversation_id |->
                                                  call.conversationId],
                                             now')))
    /\ nextId' = nextId + 1
    /\ ShowToast(SuccessText, "success", SuccessToastMs)
    /\ isLoading' = DroppedAfterUnmount(isLoading, LoadingAfterSettle(TRUE))
    /\ lastEvent' = Event("resolveUnmounted", [call |-> call, text |-> text])
    /\ IF messages' # messages
       THEN PersistEffect(messages', currentConversationId, hasUserMessage)
       ELSE UNCHANGED << storage, lastSaved, saveCount >>
    /\ UNCHANGED << error, currentConversationId, hasUserMessage, mounted,
                    activeConversationId, sidebarConversations, sends, clears,
                    sidebarOps, listResult, bubbleVars >>
    /\ UNCHANGED outsideSession

\* part_003:207-223  the call rejects after the unmount
RejectUnmounted(call, err) ==
    /\ ~mounted
    /\ call \in inflight
    /\ inflight' = inflight \ {call}
    /\ now' = now + 1
    /\ error' = DroppedAfterUnmount(error, ErrorMessageOf(err))
    /\ ShowToast(ErrorMessageOf(err), "error", ErrorToastMs)
    /\ messages' = DroppedAfterUnmount(messages,
                        AppendMessage(messages,
                            FailedMessage(GenId(nextId), ErrorMessageOf(err),
                                          call.content, now')))
    /\ nextId' = nextId + 1
    /\ isLoading' = DroppedAfterUnmount(isLoading, LoadingAfterSettle(FALSE))
    /\ lastEvent' = Event("rejectUnmounted", [call |-> call, err |-> err])
    /\ IF messages' # messages
       THEN PersistEffect(messages', currentConversationId, hasUserMessage)
       ELSE UNCHANGED << storage, lastSaved, saveCount >>
    /\ UNCHANGED << currentConversationId, hasUserMessage, mounted,
                    activeConversationId, sidebarConversations, sends, clears,
                    sidebarOps, listResult, bubbleVars >>
    /\ UNCHANGED outsideSession

NextUnmount ==
    \/ Mount
    \/ \E content \in Contents : SubmitInput(content)
    \/ \E i \in 1..Len(messages) : Retry(i)
    \/ \E call \in inflight, text \in ResponseTexts : Resolve(call, text)
    \/ \E call \in inflight, err \in Failures : Reject(call, err)
    \/ Unmount
    \/ \E call \in inflight, text \in ResponseTexts :
          ResolveUnmounted(call, text)
    \/ \E call \in inflight, err \in Failures : RejectUnmounted(call, err)

SpecUnmount == Init /\ [][NextUnmount]_vars

-----------------------------------------------------------------------------
(* The session under every shape of rejection the catch clause can read *)

\* what the catch clause reads from err: a detail of the response body or
\* none or an empty one, a message or none or an empty one
ErrorShapes ==
    { ServiceError, NetworkError,
      [kind |-> "ServiceError", detail |-> "bad query", message |-> Undefined],
      [kind |-> "ServiceError", detail |-> "",
       message |-> "Request failed with status code 500"],
      [kind |-> "Error", detail |-> Undefined, message |-> ""],
      [kind |-> "Error", detail |-> Undefined, message |-> Undefined] }

\* a session whose Sends, typed one after the other, all fail
NextErrors ==
    \/ Mount
    \/ \E content \in Contents : SubmitInput(content)
    \/ \E call \in inflight, err \in ErrorShapes : Reject(call, err)

SpecErrors == Init /\ [][NextErrors]_vars

-----------------------------------------------------------------------------
(* The store on its own: getConversations run on every kind of stored value *)

\* useChat is not rendered and nothing of the session has run
IdleSession ==
    /\ messages = <<>>
    /\ isLoading = FALSE
    /\ error = Undefined
    /\ currentConversationId = Undefined
    /\ hasUserMessage = FALSE
    /\ mounted = FALSE
    /\ inflight = {}
    /\ activeConversationId = Undefined
    /\ sidebarConversations = <<>>
    /\ toastId = 0
    /\ published = <<>>
    /\ nextId = 0
    /\ now = 2
    /\ sends = 0
    /\ clears = 0
    /\ sidebarOps = 0
    /\ saveCount = 0
    /\ lastSaved = NoRecord
    /\ lastEvent = [op |-> "none", before |-> <<>>, arg |-> Undefined,
                    opened |-> [id |-> Undefined, found |-> FALSE,
                                sends |-> 0, saves |-> 0],
                    retries |-> 0]

NotListed == listResult = [called |-> FALSE, threw |-> FALSE, value |-> <<>>]

InitStore ==
    /\ storage \in RawStores
    /\ IdleSession
    /\ NotListed
    /\ IdleStore
    /\ IdleBus
    /\ IdleTyping
    /\ IdleBubbles
    /\ IdleHealth

\* part_004:12-33  a caller runs storageService.getConversations()
ListConversations ==
    /\ ~listResult.called
    /\ listResult' = With(GetConversationsCall(storage), "called", TRUE)
    /\ UNCHANGED << sessionVars, storage, storeEvent, busVars, typingVars,
                    bubbleVars, healthVars >>

NextStore == ListConversations

SpecStore == InitStore /\ [][NextStore]_vars

-----------------------------------------------------------------------------
(* The store under direct calls of saveConversation and deleteConversation *)

\* elements of a stored array the calls start from: two records written by
\* a session, a record that decodes although its one message is not an
\* object, and an element without messages, on which the decoder throws
OpEntryShapes ==
    { EncodeConversation(OldConversation),
      EncodeConversation(OtherConversation),
      JObject([id |-> "x", messages |-> JArray(<<JScalar>>)]),
      JObject([id |-> "x"]) }

OpStores ==
    { NoItem, InvalidText, JsonText(JScalar) }
    \cup { JsonText(JArray(items)) :
             items \in UNION { [1..n -> OpEntryShapes] : n \in 0..MaxEntries } }

\* the stored conversation old-c as a later save hands it over: another
\* title, one more message
OldRevised ==
    [id |-> "old-c", title |-> "q2",
     messages |-> << OldUser, OldFailed, OtherUser >>,
     createdAt |-> 3, updatedAt |-> 3]

\* a conversation under the id of the records that are not a session's
NewX ==
    [id |-> "x", title |-> "q1", messages |-> << OldUser >>,
     createdAt |-> 3, updatedAt |-> 3]

SavedConversations == { OldConversation, OldRevised, OtherConversation, NewX }

DeletedIds == { "old-c", "old-d", "x" }

InitStoreOps ==
    /\ storage \in OpStores
    /\ IdleSession
    /\ NotListed
    /\ IdleStore
    /\ IdleBus
    /\ IdleTyping
    /\ IdleBubbles
    /\ IdleHealth

\* part_004:35-50  a caller runs storageService.saveConversation(c)
StoreSave(c) ==
    /\ storeEvent.n < MaxStoreOps
    /\ storage' = SaveConversation(storage, c)
    /\ storeEvent' = [op |-> "save", arg |-> c, before |-> storage,
                      n |-> storeEvent.n + 1]
    /\ UNCHANGED << sessionVars, listResult, busVars, typingVars,
                    bubbleVars, healthVars >>

\* part_004:52-59  a caller runs storageService.deleteConversation(id)
StoreDelete(id) ==
    /\ storeEvent.n < MaxStoreOps
    /\ storage' = DeleteConversation(storage, id)
    /\ storeEvent' = [op |-> "delete", arg |-> id, before |-> storage,
                      n |-> storeEvent.n + 1]
    /\ UNCHANGED << sessionVars, listResult, busVars, typingVars,
                    bubbleVars, healthVars >>

NextStoreOps ==
    \/ \E c \in SavedConversations : StoreSave(c)
    \/ \E id \in DeletedIds : StoreDelete(id)

SpecStoreOps == InitStoreOps /\ [][NextStoreOps]_vars

-----------------------------------------------------------------------------
(* The toast bus on its own: components subscribe and unsubscribe, callers
   publish, timers fire, the user dismisses *)

\* showToast's duration argument: none to wait for, and the success toast's
Durations == {0, SuccessToastMs}

InitBus ==
    /\ storage = NoItem
    /\ IdleSession
    /\ NotListed
    /\ IdleStore
    /\ IdleBus
    /\ IdleTyping
    /\ IdleBubbles
    /\ IdleHealth

busFrame == << hookVars, storage, listResult, storeEvent, typingVars,
              bubbleVars, healthVars >>

BusEvent(op, h, id) == [op |-> op, h |-> h, id |-> id, n |-> busEvent.n + 1]

\* part_002:22, 24-37  a component mounts: its list is empty, its effect adds
\* its handler to the listeners
Subscribe(h) ==
    /\ busEvent.n < MaxBusOps
    /\ h \notin listeners /\ h \notin retired
    /\ listeners' = listeners \cup {h}
    /\ busEvent' = BusEvent("subscribe", h, Undefined)
    /\ UNCHANGED << retired, toasts, timers, received, toastId, published,
                    busFrame >>

\* part_002:38  the component unmounts: the effect's cleanup deletes the
\* handler; the timers the handler armed are left running
Unsubscribe(h) ==
    /\ busEvent.n < MaxBusOps
    /\ h \in listeners
    /\ listeners' = listeners \ {h}
    /\ retired' = retired \cup {h}
    /\ busEvent' = BusEvent("unsubscribe", h, Undefined)
    /\ UNCHANGED << toasts, timers, received, toastId, published, busFrame >>

\* part_002:15-19  some caller runs showToast(message, type, duration)
Publish(duration) ==
    /\ busEvent.n < MaxBusOps
    /\ ShowToast("m", "info", duration)
    /\ busEvent' = BusEvent("publish", Undefined,
                            NewToast("m", "info", duration).id)
    /\ UNCHANGED << listeners, retired, busFrame >>

\* part_002:29-31  a timer fires: the toast leaves the list of the component
\* that armed it; a state update of an unmounted component is dropped
TimerFires(t) ==
    /\ t \in timers
    /\ timers' = timers \ {t}
    /\ toasts' = IF t.h \in retired THEN toasts
                 ELSE [toasts EXCEPT ![t.h] = FilterOut(@, t.id)]
    /\ busEvent' = [op |-> "timer", h |-> t.h, id |-> t.id, n |-> busEvent.n]
    /\ UNCHANGED << listeners, retired, received, toastId, published,
                    busFrame >>

\* part_002:41-43, Toast.tsx:57  the user closes a toast that is shown
RemoveToast(h, id) ==
    /\ busEvent.n < MaxBusOps
    /\ h \in listeners
    /\ id \in ToastIds(toasts[h])
    /\ toasts' = [toasts EXCEPT ![h] = FilterOut(@, id)]
    /\ busEvent' = BusEvent("remove", h, id)
    /\ UNCHANGED << listeners, retired, timers, received, toastId, published,
                    busFrame >>

NextBus ==
    \/ \E h \in Handlers : Subscribe(h)
    \/ \E h \in Handlers : Unsubscribe(h)
    \/ \E duration \in Durations : Publish(duration)
    \/ \E t \in timers : TimerFires(t)
    \/ \E h \in Handlers : \E id \in ToastIds(toasts[h]) : RemoveToast(h, id)

SpecBus == InitBus /\ [][NextBus]_vars

\* setTimeout: while timers are armed, the event loop runs one of them
SpecBusLive == SpecBus /\ WF_timers(\E t \in timers : TimerFires(t))

-----------------------------------------------------------------------------
(* The typing reveal on its own: a component renders useTypingEffect with
   its props, the interval ticks, the props change, the component unmounts *)

\* a short answer and one of 12 characters
Texts == {"abc", "SELECT total"}
Speeds == {BubbleSpeed, DefaultSpeed}

InitTyping ==
    /\ storage = NoItem
    /\ IdleSession
    /\ NotListed
    /\ IdleStore
    /\ IdleBus
    /\ IdleTyping
    /\ IdleBubbles
    /\ IdleHealth

typingFrame == << sessionVars, storage, listResult, storeEvent, busVars,
                 bubbleVars, healthVars >>

\* useTypingEffect.ts:9-38  first render and its effect
TypingMount(text, speed, enabled) ==
    /\ typingEvent.n < MaxTypingOps
    /\ ~typing.mounted /\ typing.run = 0
    /\ typing' = EffectState(text, speed, enabled, 1)
    /\ intervals' = EffectIntervals(intervals, text, enabled, 1)
    /\ typingEvent' = [op |-> "mount", run |-> 1, ticks |-> 0,
                       n |-> typingEvent.n + 1]
    /\ UNCHANGED typingFrame

\* useTypingEffect.ts:13-38  a render with another text, speed or enabled:
\* the cleanup of the previous effect run, then the effect again
TypingRerender(text, speed, enabled) ==
    /\ typingEvent.n < MaxTypingOps
    /\ typing.mounted
    /\ << text, speed, enabled >> # << typing.text, typing.speed, typing.enabled >>
    /\ typing' = EffectState(text, speed, enabled, typing.run + 1)
    /\ intervals' = EffectIntervals(ClearInterval(intervals, typing.run),
                                    text, enabled, typing.run + 1)
    /\ typingEvent' = [op |-> "change", run |-> typing.run + 1, ticks |-> 0,
                       n |-> typingEvent.n + 1]
    /\ UNCHANGED typingFrame

\* useTypingEffect.ts:34-37  the component unmounts: the cleanup runs, and
\* its state update on the unmounted component is dropped
TypingUnmount ==
    /\ typingEvent.n < MaxTypingOps
    /\ typing.mounted
    /\ typing' = [typing EXCEPT !.mounted = FALSE]
    /\ intervals' = ClearInterval(intervals, typing.run)
    /\ typingEvent' = [typingEvent EXCEPT !.op = "unmount", !.run = typing.run,
                                          !.n = @ + 1]
    /\ UNCHANGED typingFrame

\* useTypingEffect.ts:24-31  the interval callback of an armed interval
TypingTick(iv) ==
    /\ iv \in intervals
    /\ IF iv.currentIndex <= Len(iv.text)
       THEN /\ typing' = IF typing.mounted
                         THEN [typing EXCEPT !.displayedText =
                                             Slice(iv.text, iv.currentIndex)]
                         ELSE typing
            /\ intervals' = (intervals \ {iv}) \cup
                             {[iv EXCEPT !.currentIndex = @ + 1]}
       ELSE /\ typing' = IF typing.mounted
                         THEN [typing EXCEPT !.isTyping = FALSE]
                         ELSE typing
            /\ intervals' = intervals \ {iv}
    /\ typingEvent' = [typingEvent EXCEPT !.op = "tick", !.run = iv.run,
                                          !.ticks = @ + 1]
    /\ UNCHANGED typingFrame

NextTyping ==
    \/ \E text \in Texts, speed \in Speeds, enabled \in BOOLEAN :
          TypingMount(text, speed, enabled)
    \/ \E text \in Texts, speed \in Speeds, enabled \in BOOLEAN :
          TypingRerender(text, speed, enabled)
    \/ TypingUnmount
    \/ \E iv \in intervals : TypingTick(iv)

SpecTyping == InitTyping /\ [][NextTyping]_vars

-----------------------------------------------------------------------------
(* The health checks on their own: a caller awaits apiService.checkHealth(),
   a component renders useHealthCheck and its interval polls *)

InitHealth ==
    /\ storage = NoItem
    /\ IdleSession
    /\ NotListed
    /\ IdleStore
    /\ IdleBus
    /\ IdleTyping
    /\ IdleBubbles
    /\ IdleHealth

healthFrame == << sessionVars, storage, listResult, storeEvent, busVars,
                 typingVars, bubbleVars >>

HealthEvent(op, outcome, started) ==
    [op |-> op, outcome |-> outcome, n |-> healthEvent.n + started]

\* api.ts:51-53  a caller runs apiService.checkHealth(): the request leaves
ApiCheckStarts ==
    /\ healthEvent.n < MaxHealthChecks
    /\ healthCall.state # "pending"
    /\ healthCall' = [state |-> "pending", result |-> Undefined]
    /\ healthEvent' = HealthEvent("apiStart", Undefined, 1)
    /\ UNCHANGED << healthHook, healthFrame >>

\* api.ts:53-62  the request ends and the promise of checkHealth settles
ApiCheckSettles(outcome) ==
    /\ healthCall.state = "pending"
    /\ healthCall' = [state |-> IF CheckHealth(outcome).threw
                                THEN "rejected" ELSE "resolved",
                      result |-> CheckHealth(outcome).value]
    /\ healthEvent' = HealthEvent("apiSettle", outcome, 0)
    /\ UNCHANGED << healthHook, healthFrame >>

\* useHealthCheck.ts:6-8, 30-35  first render and its effect: the immediate
\* check and the polling interval
HealthMount ==
    /\ healthEvent.n < MaxHealthChecks
    /\ ~healthHook.mounted /\ ~healthHook.interval /\ healthHook.isChecking
    /\ healthHook' = [healthHook EXCEPT !.mounted = TRUE, !.interval = TRUE,
                                        !.pending = TRUE]
    /\ healthEvent' = HealthEvent("mount", Undefined, 1)
    /\ UNCHANGED << healthCall, healthFrame >>

\* useHealthCheck.ts:35  the interval fires (every 300000 ms, long after the
\* 5000 ms the previous check can take)
HealthPoll ==
    /\ healthEvent.n < MaxHealthChecks
    /\ healthHook.interval /\ ~healthHook.pending
    /\ healthHook' = [healthHook EXCEPT !.pending = TRUE]
    /\ healthEvent' = HealthEvent("poll", Undefined, 1)
    /\ UNCHANGED << healthCall, healthFrame >>

\* useHealthCheck.ts:17-27  the fetch of the check ends; the state updates
\* of an unmounted component are dropped
HealthSettles(outcome) ==
    /\ healthHook.pending
    /\ healthHook' =
          IF healthHook.mounted
          THEN [healthHook EXCEPT
                   !.isOnline = OnlineAfter(outcome, healthHook.isOnline),
                   !.isChecking = FALSE, !.pending = FALSE]
          ELSE [healthHook EXCEPT !.pending = FALSE]
    /\ healthEvent' = HealthEvent("hookSettle", outcome, 0)
    /\ UNCHANGED << healthCall, healthFrame >>

\* useHealthCheck.ts:37  the component unmounts: clearInterval
HealthUnmount ==
    /\ healthHook.mounted
    /\ healthHook' = [healthHook EXCEPT !.mounted = FALSE, !.interval = FALSE]
    /\ healthEvent' = HealthEvent("unmount", Undefined, 0)
    /\ UNCHANGED << healthCall, healthFrame >>

NextHealth ==
    \/ ApiCheckStarts
    \/ \E outcome \in HealthOutcomes : ApiCheckSettles(outcome)
    \/ HealthMount
    \/ HealthPoll
    \/ \E outcome \in HealthOutcomes : HealthSettles(outcome)
    \/ HealthUnmount

SpecHealth == InitHealth /\ [][NextHealth]_vars

-----------------------------------------------------------------------------
(* Properties *)

Last(s) == s[Len(s)]
IsPrefix(s, t) == Len(s) <= Len(t) /\ SubSeq(t, 1, Len(s)) = s

\* the Send that just settled met no other Send and no Clear on its way
SettledAlone(op) ==
    /\ lastEvent.op = op
    /\ ~lastEvent.arg.call.interleaved

\* C1: when the gateway call of sendMessage(content) resolves, and no other
\* Send or Clear ran in between, the list is the list at call time followed
\* by a user message with that content and an assistant message carrying
\* the response text (with its metadata); a success toast has been
\* published and isLoading is false.
C1_SendSuccessAppendsTurn ==
    SettledAlone("resolve") =>
        LET call == lastEvent.arg.call
            n == Len(call.atCall)
        IN  /\ Len(messages) = n + 2
            /\ SubSeq(messages, 1, n) = call.atCall
            /\ messages[n + 1].role = "user"
            /\ messages[n + 1].content = call.content
            /\ messages[n + 2].role = "assistant"
            /\ messages[n + 2].content = lastEvent.arg.text
            /\ ~HasError(messages[n + 2])
            /\ Has(messages[n + 2], "responseData")
            /\ Len(published) > 0
            /\ Last(published).type = "success"
            /\ Last(published).message = SuccessText
            /\ isLoading = FALSE

\* a Send resolved on its own in a conversation that already had messages
C1_Witness ==
    /\ SettledAlone("resolve")
    /\ Len(lastEvent.arg.call.atCall) >= 2
    /\ Len(messages) = Len(lastEvent.arg.call.atCall) + 2

\* C2: when the gateway call of sendMessage(content) rejects, and no other
\* Send or Clear ran in between, the list has grown by a user message and an
\* assistant message with hasError = true and originalUserMessage = content;
\* error is non-null, an error toast has been published and isLoading is
\* false.
C2_SendFailureAppendsFailedTurn ==
    SettledAlone("reject") =>
        LET call == lastEvent.arg.call
            n == Len(call.atCall)
        IN  /\ Len(messages) = n + 2
            /\ SubSeq(messages, 1, n) = call.atCall
            /\ messages[n + 1].role = "user"
            /\ messages[n + 1].content = call.content
            /\ messages[n + 2].role = "assistant"
            /\ HasError(messages[n + 2])
            /\ Get(messages[n + 2], "originalUserMessage") = call.content
            /\ error # Undefined
            /\ Len(published) > 0
            /\ Last(published).type = "error"
            /\ isLoading = FALSE

\* a Send rejected on its own, with a timeout
C2_Witness ==
    /\ SettledAlone("reject")
    /\ lastEvent.arg.err = TimeoutError
    /\ Len(messages) = Len(lastEvent.arg.call.atCall) + 2

\* C3 (as claimed): isLoading is true exactly when some Send of the session
\* is in flight.
C3_LoadingIffInFlight ==
    mounted => (isLoading <=> inflight # {})

\* two Sends were in flight together and the first has settled
C3_Witness ==
    /\ mounted
    /\ lastEvent.op \in {"resolve", "reject"}
    /\ inflight # {}

\* C4: given that every gateway call settles, every pending Send completes,
\* whatever the failure kind, without its rejection leaving sendMessage, and
\* the session comes back to isLoading = false with no call pending, where
\* the input accepts another Send; isLoading never stays true forever.
C4_SendAlwaysCompletes ==
    /\ [](lastEvent.op = "reject" => ~lastEvent.arg.propagated)
    /\ (inflight # {}) ~> (inflight = {} /\ ~isLoading)
    /\ isLoading ~> ~isLoading

\* a Send that failed has completed and the session is idle again
C4_Witness ==
    /\ lastEvent.op = "reject"
    /\ lastEvent.arg.err.kind = "NetworkError"
    /\ inflight = {}
    /\ ~isLoading

IsGreeting(m) ==
    /\ m.role = "assistant"
    /\ m.content = GreetingText
    /\ ~HasError(m)

StoredIds(raw) == SeqToSet(IdsOf(GetConversations(raw)))

\* C5: a session opened (at mount or by Clear) for an id with no record in
\* the store shows exactly one assistant greeting with hasUserMessage
\* false, and until the next sendMessage call it writes nothing to the
\* store and hasUserMessage stays false.
C5_NewConversationGreetsAndWritesNothing ==
    (mounted /\ ~lastEvent.opened.found) =>
        /\ lastEvent.op \in {"mount", "clear"} =>
              /\ Len(messages) = 1
              /\ IsGreeting(messages[1])
              /\ currentConversationId = lastEvent.opened.id
              /\ currentConversationId \notin StoredIds(storage)
        /\ sends = lastEvent.opened.sends =>
              /\ ~hasUserMessage
              /\ saveCount = lastEvent.opened.saves

\* after some writes the session was cleared: the new conversation has no
\* record, shows the greeting and has written nothing since
C5_Witness ==
    /\ mounted
    /\ lastEvent.op = "clear"
    /\ ~lastEvent.opened.found
    /\ lastEvent.opened.saves > 0
    /\ saveCount = lastEvent.opened.saves
    /\ Len(messages) = 1
    /\ ~hasUserMessage

\* the session state the persist effect depends on (part_003:168)
persistDeps == << messages, currentConversationId, hasUserMessage >>

\* C6: every step that changes messages, the conversation id or
\* hasUserMessage and leaves a non-empty list with hasUserMessage true
\* writes the whole current list (every message, without responseData)
\* under the session's conversation id; and the session writes only when
\* the list is non-empty and hasUserMessage is true.
C6_PersistFollowsEveryChange ==
    [][ /\ (persistDeps' # persistDeps /\ Len(messages') > 0
            /\ hasUserMessage')
           => /\ saveCount' = saveCount + 1
              /\ lastSaved'.id = currentConversationId'
              /\ Len(lastSaved'.messages) = Len(messages')
              /\ \A i \in 1..Len(messages') :
                    \A f \in DOMAIN messages'[i] \ {"responseData"} :
                        /\ Has(lastSaved'.messages[i], f)
                        /\ lastSaved'.messages[i][f] = messages'[i][f]
              /\ currentConversationId' \in StoredIds(storage')
        /\ saveCount' # saveCount
           => /\ Len(messages') > 0
              /\ hasUserMessage'
        /\ (storage' # storage /\ sidebarOps' = sidebarOps)
           => saveCount' # saveCount
      ]_vars

\* the answer to a Send has arrived and the list of four or more messages
\* was written again under the session's id
C6_Witness ==
    /\ lastEvent.op = "resolve"
    /\ hasUserMessage
    /\ saveCount >= 2
    /\ Len(messages) >= 4
    /\ lastSaved.id = currentConversationId
    /\ Len(lastSaved.messages) = Len(messages)

\* C7 (as claimed): whenever the active conversation id changes under a
\* mounted session, the session takes that id and re-initialises: the stored
\* record's messages with hasUserMessage true when there is a record, one
\* greeting with hasUserMessage false otherwise.
C7_SelectionReinitialisesSession ==
    [][ (mounted /\ activeConversationId' # activeConversationId)
        => /\ currentConversationId' = activeConversationId'
           /\ LET conversations == GetConversations(storage)
                  index == FindIndex(conversations, activeConversationId')
              IN  IF index > 0
                  THEN /\ messages' = conversations[index].messages
                       /\ hasUserMessage'
                  ELSE /\ Len(messages') = 1
                       /\ IsGreeting(messages'[1])
                       /\ ~hasUserMessage'
      ]_vars

\* C8: clearMessages leaves none of the previous messages in the list, sets
\* hasUserMessage to false, replaces the conversation id by a fresh one
\* (different from the previous id and from every stored id) and leaves
\* the store, the previous conversation's record included, as it was.
C8_ClearStartsFreshConversation ==
    [][ clears' # clears
        => /\ \A i \in 1..Len(messages') : \A j \in 1..Len(messages) :
                 /\ messages'[i] # messages[j]
                 /\ messages'[i].id # messages[j].id
           /\ ~hasUserMessage'
           /\ currentConversationId' # currentConversationId
           /\ currentConversationId' \notin StoredIds(storage)
           /\ storage' = storage
           /\ saveCount' = saveCount
      ]_vars

\* a conversation with a complete turn, written to the store, was cleared
C8_Witness ==
    /\ lastEvent.op = "clear"
    /\ Len(lastEvent.before) >= 3
    /\ lastEvent.arg.previous \in StoredIds(storage)
    /\ currentConversationId # lastEvent.arg.previous

MessageIds(msgs) == { msgs[i].id : i \in 1..Len(msgs) }

\* C9: a click on the retry button of a failed message calls Send with that
\* message's originalUserMessage and appends one new user message; the
\* answer to it appends one new assistant message; every message already
\* in the list, the failed one included, keeps its position and its fields.
\* Every appended message has an id no other message has, so two retries
\* of the same failed message give two separate turns.
C9_RetryAppendsNewTurn ==
    [][ /\ (sends' # sends /\ lastEvent'.op = "retry")
           => LET failed == messages[lastEvent'.arg]
                  added == Last(messages')
              IN  /\ HasError(failed)
                  /\ Len(messages') = Len(messages) + 1
                  /\ SubSeq(messages', 1, Len(messages)) = messages
                  /\ added.role = "user"
                  /\ added.content = failed.originalUserMessage
                  /\ added.id \notin MessageIds(messages)
                  /\ \E call \in inflight' \ Interleave(inflight) :
                        /\ call.content = failed.originalUserMessage
                        /\ call.via = "retry"
        /\ (inflight' # inflight /\ sends' = sends /\ clears' = clears)
           => LET added == Last(messages')
              IN  /\ Len(messages') = Len(messages) + 1
                  /\ SubSeq(messages', 1, Len(messages)) = messages
                  /\ added.role = "assistant"
                  /\ added.id \notin MessageIds(messages)
      ]_vars

\* the same failed message was retried twice and both calls have settled:
\* the failed message is followed by two user and two assistant messages
C9_Witness ==
    /\ lastEvent.retries = 2
    /\ lastEvent.op \in {"resolve", "reject"}
    /\ inflight = {}
    /\ \E i \in 1..Len(messages) :
          /\ HasError(messages[i])
          /\ Len(messages) = i + 4
          /\ Cardinality({ j \in (i + 1)..(i + 4) :
                           /\ messages[j].role = "user"
                           /\ messages[j].content =
                                  messages[i].originalUserMessage }) = 2
          /\ Cardinality({ j \in (i + 1)..(i + 4) :
                           messages[j].role = "assistant" }) = 2
    /\ Cardinality(MessageIds(messages)) = Len(messages)

\* an element of a persisted array that is an object with a messages array
HasMessagesArray(entry) ==
    /\ entry.kind = "object"
    /\ Has(entry.fields, "messages")
    /\ entry.fields.messages.kind = "array"

\* C10: getConversations never throws and always returns a sequence: the
\* empty one for a missing key, for text that is not JSON, for a value that
\* is not an array and for an array with an element that is not a record
\* with a messages array; every element of an array of records written by
\* saveConversation is returned.
C10_ListNeverThrows ==
    listResult.called =>
        /\ ~listResult.threw
        /\ DOMAIN listResult.value = 1..Len(listResult.value)
        /\ storage.kind \in {"absent", "empty", "invalid"}
           => listResult.value = <<>>
        /\ (storage.kind = "json" /\ storage.value.kind # "array")
           => listResult.value = <<>>
        /\ (storage.kind = "json" /\ storage.value.kind = "array")
           => LET items == storage.value.items
              IN  /\ (\E i \in 1..Len(items) : ~HasMessagesArray(items[i]))
                     => listResult.value = <<>>
                  /\ (\A i \in 1..Len(items) :
                         items[i] \in {EncodeConversation(OldConversation),
                                       EncodeConversation(OtherConversation)})
                     => /\ Len(listResult.value) = Len(items)
                        /\ \A i \in 1..Len(items) :
                              listResult.value[i].id = items[i].fields.id

\* the list was asked for a store holding a good record followed by a
\* record without a messages array, and came back empty
C10_Witness ==
    /\ listResult.called
    /\ storage = JsonText(JArray(<< EncodeConversation(OldConversation),
                                    JObject([id |-> "x"]) >>))
    /\ listResult.value = <<>>
    /\ ~listResult.threw

CountId(conversations, id) ==
    Cardinality({ i \in 1..Len(conversations) :
                  Get(conversations[i], "id") = id })

NoSharedIds(conversations) ==
    \A i, j \in 1..Len(conversations) :
        i # j => Get(conversations[i], "id") # Get(conversations[j], "id")

\* C11: after saveConversation(c) the list holds the record of c, with the
\* title and the messages of c and nothing of an earlier record, at the
\* place of the first record that had its id, or at the end when there was
\* none; the other places keep their ids.  Starting from a list in which no
\* two records share an id, exactly one record has the id of c after a
\* save and none has the id after a delete, and no save or delete makes two
\* records share an id.
C11_SaveIsUpsertById ==
    LET before == GetConversations(storeEvent.before)
        after == GetConversations(storage)
    IN  /\ storeEvent.op = "save" =>
              LET c == storeEvent.arg
                  had == { i \in 1..Len(before) : Get(before[i], "id") = c.id }
                  place == IF had = {} THEN Len(before) + 1
                           ELSE CHOOSE i \in had : \A j \in had : i <= j
              IN  /\ Len(after) = IF had = {} THEN Len(before) + 1
                                  ELSE Len(before)
                  /\ after[place].id = c.id
                  /\ after[place].title = c.title
                  /\ after[place].messages = c.messages
                  /\ \A i \in 1..Len(before) :
                        i # place => Get(after[i], "id") = Get(before[i], "id")
                  /\ NoSharedIds(before) => CountId(after, c.id) = 1
        /\ storeEvent.op = "delete" =>
              /\ CountId(after, storeEvent.arg) = 0
              /\ Len(after) = Len(before) - CountId(before, storeEvent.arg)
        /\ storeEvent.op # "none" =>
              (NoSharedIds(before) => NoSharedIds(after))

\* a stored record was saved again with another title and another message
\* list, and took the place of the old one behind a record that stayed
C11_Witness ==
    /\ storeEvent.op = "save"
    /\ storeEvent.arg = OldRevised
    /\ storeEvent.n = 2
    /\ LET before == GetConversations(storeEvent.before)
           after == GetConversations(storage)
       IN  /\ Len(before) = 2
           /\ before[2].id = "old-c"
           /\ before[2].title = "q1"
           /\ Len(after) = 2
           /\ after[1].id = "old-d"
           /\ after[2].title = "q2"
           /\ Len(after[2].messages) = 3

\* the stored record with this id, as getConversations returns it
Stored(raw, id) ==
    LET conversations == GetConversations(raw)
    IN  conversations[FindIndex(conversations, id)]

\* C12: whenever the session has written its conversation, the record that
\* getConversations then returns for it has as many messages as the list in
\* memory, in the same order, each with the id, role, content and timestamp
\* of the message in memory (the timestamp a date value, not its text), and
\* none with a responseData field.
C12_SavedMessagesRoundTrip ==
    [][ saveCount' # saveCount
        => \A conversations \in {GetConversations(storage')} :
             \A index \in {FindIndex(conversations, currentConversationId')} :
               /\ index > 0
               /\ \A loaded \in {conversations[index].messages} :
                     /\ Len(loaded) = Len(messages')
                     /\ \A i \in 1..Len(loaded) :
                           /\ loaded[i].id = messages'[i].id
                           /\ loaded[i].role = messages'[i].role
                           /\ loaded[i].content = messages'[i].content
                           /\ loaded[i].timestamp = messages'[i].timestamp
                           /\ loaded[i].timestamp \in Nat
                           /\ ~Has(loaded[i], "responseData")
      ]_vars

\* an answered turn was saved: the answer in memory carries responseData,
\* the stored one has the same id and no responseData
C12_Witness ==
    /\ lastEvent.op = "resolve"
    /\ hasUserMessage
    /\ Has(Last(messages), "responseData")
    /\ lastSaved.id = currentConversationId
    /\ currentConversationId \in StoredIds(storage)
    /\ LET loaded == Stored(storage, currentConversationId).messages
       IN  /\ Len(loaded) = Len(messages)
           /\ Last(loaded).id = Last(messages).id
           /\ ~Has(Last(loaded), "responseData")

HasUserTurn(msgs) == \E i \in 1..Len(msgs) : msgs[i].role = "user"

\* C13: in every state hasUserMessage implies that the list in memory holds
\* a user message; every record the session has written holds one, and so
\* does every record of the store (the store held no other at the start):
\* no empty and no greeting-only conversation is ever stored.
C13_StoredConversationsHaveUserTurn ==
    /\ (mounted /\ hasUserMessage) => HasUserTurn(messages)
    /\ saveCount > 0 => HasUserTurn(lastSaved.messages)
    /\ \A conversations \in {GetConversations(storage)} :
          \A i \in 1..Len(conversations) :
              HasUserTurn(conversations[i].messages)

\* a conversation was written, cleared, and a second one written: both
\* records hold a user message, and the answer to the first Send arrived
\* after the Clear
C13_Witness ==
    /\ clears > 0
    /\ hasUserMessage
    /\ saveCount >= 2
    /\ Len(GetConversations(storage)) >= 2
    /\ \E i \in 1..Len(messages) :
          /\ messages[i].role = "user"
          /\ i > 1
          /\ messages[i - 1].role = "assistant"
          /\ ~IsGreeting(messages[i - 1])

Present(v) == v # Undefined /\ v # ""

\* C14: when a Send fails, the error string is the detail of the response
\* when there is one (a non-empty one), otherwise the message of the
\* exception when there is one, otherwise the fixed fallback; that one
\* string is the session's error, the message of the error toast and the
\* text after "Erro: " in the failed assistant message.
C14_ErrorStringByPriority ==
    lastEvent.op = "reject" =>
        LET err == lastEvent.arg.err
            chosen == IF Present(err.detail) THEN err.detail
                      ELSE IF Present(err.message) THEN err.message
                      ELSE FallbackError
        IN  /\ error = chosen
            /\ Last(published).type = "error"
            /\ Last(published).message = chosen
            /\ HasError(Last(messages))
            /\ Last(messages).content = "Erro: " \o chosen

\* three Sends failed: one with a detail and a message, one with a message
\* only, one with neither; the three toasts carry the detail, the message
\* and the fallback
C14_Witness ==
    /\ lastEvent.op = "reject"
    /\ Len(published) = 3
    /\ published[1].message = "bad query"
    /\ published[2].message = "Network Error"
    /\ published[3].message = FallbackError
    /\ error = FallbackError
    /\ lastEvent.arg.err.message = ""

\* the first n characters of a text, all of it when it is shorter
FirstChars(text, n) ==
    IF Len(text) <= n THEN text
    ELSE CHOOSE t \in {SubSeq(text, 1, k) : k \in 0..Len(text)} : Len(t) = n

\* C15: every record the session writes has as title the first 50
\* characters of the content of the first user message of the list (the
\* fallback literal when there is no such text), and a write under the id
\* of the previous write of the session carries the same title.
C15_TitleFromFirstUserMessage ==
    [][ saveCount' # saveCount
        => /\ \A users \in {{ i \in 1..Len(messages') :
                                 messages'[i].role = "user" }} :
                IF users = {}
                THEN lastSaved'.title = FallbackTitle
                ELSE \A first \in { i \in users : \A j \in users : i <= j } :
                       IF messages'[first].content = ""
                       THEN lastSaved'.title = FallbackTitle
                       ELSE lastSaved'.title =
                                FirstChars(messages'[first].content,
                                           TitleLength)
           /\ lastSaved'.id = lastSaved.id
              => lastSaved'.title = lastSaved.title
           /\ \A conversations \in {GetConversations(storage')} :
                \E i \in 1..Len(conversations) :
                    /\ conversations[i].id = lastSaved'.id
                    /\ conversations[i].title = lastSaved'.title
      ]_vars

\* a conversation that began with the long question was written again
\* after a second, short question: the title is still the first 50
\* characters of the long one
C15_Witness ==
    /\ saveCount >= 3
    /\ lastSaved.id = currentConversationId
    /\ Len(lastSaved.title) = TitleLength
    /\ lastSaved.title = SubSeq(LongContent, 1, TitleLength)
    /\ \E i, j \in 1..Len(messages) :
          /\ i < j
          /\ messages[i].role = "user"
          /\ messages[i].content = LongContent
          /\ messages[j].role = "user"
          /\ messages[j].content = "q1"

ToastIdsOf(list) == [i \in 1..Len(list) |-> list[i].id]

\* C16: a showToast call hands its toast, once, to every handler that is
\* registered at that moment and to no other, after the toasts that handler
\* was handed before; no other step hands a toast to any handler. So what a
\* handler has received is always one unbroken stretch of the published
\* toasts, in publish order: those published while it was registered.
C16_FanOutToSubscribedHandlers ==
    [][ \A h \in Handlers :
          /\ IF toastId' # toastId
             THEN received'[h] =
                     IF h \in listeners
                     THEN Append(received[h], Last(published').id)
                     ELSE received[h]
             ELSE received'[h] = received[h]
          /\ \E from \in 1..(Len(published') + 1) :
                /\ received'[h] =
                       SubSeq(ToastIdsOf(published'), from,
                              from + Len(received'[h]) - 1)
                /\ h \in listeners' /\ received'[h] # <<>>
                   => from + Len(received'[h]) - 1 = Len(published')
      ]_vars

\* two toasts were published: the first with both handlers registered, the
\* second after one of them had unsubscribed
C16_Witness ==
    /\ Len(published) = 2
    /\ received["h1"] = << "toast-0", "toast-1" >>
    /\ received["h2"] = << "toast-0" >>
    /\ listeners = {"h1"}
    /\ retired = {"h2"}

\* the toasts of a list that are no longer in the list after the step
Dropped(before, after) ==
    { before[i] : i \in { j \in 1..Len(before) :
                           before[j].id \notin ToastIds(after) } }

\* C17: no timer is ever armed for a toast published with duration 0, and
\* such a toast leaves a handler's list only when the user dismisses it or
\* when a new toast pushes it past maxToasts; a toast with a positive
\* duration that is in the list of a mounted component eventually leaves it.
C17_AutoDismissOnlyPositiveDuration ==
    /\ [][ /\ \A t \in timers' :
                \E i \in 1..Len(published') :
                    /\ published'[i].id = t.id
                    /\ published'[i].duration > 0
           /\ \A h \in Handlers :
                \A gone \in Dropped(toasts[h], toasts'[h]) :
                    gone.duration = 0
                    => \/ busEvent' = [op |-> "remove", h |-> h,
                                       id |-> gone.id, n |-> busEvent.n + 1]
                       \/ /\ toastId' # toastId
                          /\ h \in listeners
                          /\ Len(toasts[h]) = MaxToastsOf[h]
                          /\ gone = Last(toasts[h])
         ]_vars
    /\ \A h \in Handlers : \A n \in 0..MaxBusOps :
          ( /\ h \in listeners
            /\ \E i \in 1..Len(toasts[h]) :
                  /\ toasts[h][i].id = "toast-" \o ToString(n)
                  /\ toasts[h][i].duration > 0 )
          ~> ( \/ h \notin listeners
               \/ "toast-" \o ToString(n) \notin ToastIds(toasts[h]) )

\* a toast without duration and then a toast of 2000 ms reached the
\* container; the timer of the second has fired and only the first is left
C17_Witness ==
    /\ "h1" \in listeners
    /\ received["h1"] = << "toast-0", "toast-1" >>
    /\ ToastIds(toasts["h1"]) = {"toast-0"}
    /\ published[1].duration = 0
    /\ published[2].duration = SuccessToastMs
    /\ busEvent = [op |-> "timer", h |-> "h1", id |-> "toast-1", n |-> 3]
    /\ timers = {}

\* the step is a tick of the interval
Ticked == typingEvent'.op = "tick" /\ typingEvent'.ticks = typingEvent.ticks + 1

\* C18 (as claimed): the visible text is always a prefix of the full text;
\* every tick makes it one character longer, and none fires once it equals
\* the full text; when an enabled reveal shows the full text, isTyping is
\* false and no interval is armed.
C18_TickGrowsByOneThenStops ==
    [][ /\ IsPrefix(typing'.displayedText, typing'.text)
        /\ Ticked
           => /\ typing.displayedText # typing.text
              /\ Len(typing'.displayedText) = Len(typing.displayedText) + 1
        /\ ( /\ typing'.mounted /\ typing'.enabled
             /\ typing'.displayedText = typing'.text )
           => ~typing'.isTyping /\ intervals' = {}
      ]_vars

\* the whole text is visible, and the reveal has not stopped: isTyping is
\* still true and the interval is still armed
C18_Witness ==
    /\ typing.mounted /\ typing.enabled
    /\ typing.text = "abc"
    /\ typing.displayedText = typing.text
    /\ typing.isTyping
    /\ intervals # {}
    /\ typingEvent.ticks = 4

\* C19: every tick that fires belongs to the effect run in force of a mounted
\* component with the reveal enabled; a cancellation (unmount, change of a
\* prop) leaves no interval of the cancelled run armed; after an unmount the
\* visible text never changes, and at that moment it is no longer than the
\* number of ticks that had fired.
C19_NoTickAfterCancellation ==
    [][ /\ Ticked
           => /\ typing.mounted /\ typing.enabled
              /\ typingEvent'.run = typing.run
        /\ \A iv \in intervals' : typing'.mounted /\ iv.run = typing'.run
        /\ ~typing'.mounted
           => /\ typing'.displayedText = typing.displayedText
              /\ typing.enabled
                 => Len(typing'.displayedText) <= typingEvent'.ticks
      ]_vars

\* a reveal of a text of 12 characters was cancelled by the unmount after
\* 3 ticks
C19_Witness ==
    /\ ~typing.mounted
    /\ typing.enabled
    /\ Len(typing.text) = 12
    /\ typingEvent.op = "unmount"
    /\ typingEvent.ticks = 3
    /\ Len(typing.displayedText) <= 3
    /\ intervals = {}

\* the message was made in this session: its id is one generateId() gave out
ArrivedInSession(m) == \E n \in 0..(nextId - 1) : m.id = GenId(n)

\* C20: every message of a mounted session has a bubble, and a bubble whose
\* reveal is enabled shows an assistant message without hasError that was
\* made in this session: never a user message, a failed one, or one read
\* from the store.
C20_RevealOnlyForNewAssistantMessages ==
    mounted =>
        /\ DOMAIN bubbles = MessageIds(messages)
        /\ \A i \in 1..Len(messages) :
              bubbles[messages[i].id]
              => /\ messages[i].role = "assistant"
                 /\ ~HasError(messages[i])
                 /\ ArrivedInSession(messages[i])

\* a stored conversation was loaded and a Send in it has failed: the list
\* shows loaded messages, a user message of the session and a failed
\* assistant message, each in a bubble without reveal
C20_Witness ==
    /\ mounted
    /\ lastEvent.opened.found
    /\ lastEvent.op = "reject"
    /\ \E i, j, k \in 1..Len(messages) :
          /\ ~ArrivedInSession(messages[i]) /\ ~bubbles[messages[i].id]
          /\ ArrivedInSession(messages[j]) /\ messages[j].role = "user"
          /\ ~bubbles[messages[j].id]
          /\ ArrivedInSession(messages[k]) /\ HasError(messages[k])
          /\ ~bubbles[messages[k].id]

\* C21: the promise of checkHealth is never rejected; settled by a request
\* that failed (no connection, a non-2xx status, no answer within the
\* timeout) it is resolved with status unhealthy, database disconnected and
\* collections 0. A check of the polling hook that ends in a failure leaves
\* a mounted hook with isOnline false and isChecking false.
C21_HealthCheckNeverRejects ==
    /\ healthCall.state # "rejected"
    /\ (healthEvent.op = "apiSettle" /\ healthEvent.outcome.kind
            \in {"status500", "network", "timeout"})
       => /\ healthCall.state = "resolved"
          /\ healthCall.result.status = "unhealthy"
          /\ healthCall.result.database = "disconnected"
          /\ healthCall.result.collections = 0
    /\ healthEvent.op = "apiSettle" => healthCall.state = "resolved"
    /\ (healthEvent.op = "hookSettle" /\ healthHook.mounted)
       => /\ ~healthHook.isChecking
          /\ Failed(healthEvent.outcome) => ~healthHook.isOnline

\* the hook was online after a healthy answer and its next check timed out;
\* a checkHealth() call met a dead connection
C21_Witness ==
    /\ healthEvent.op = "hookSettle"
    /\ healthEvent.outcome.kind = "timeout"
    /\ healthEvent.n = 3
    /\ healthHook.mounted /\ ~healthHook.isOnline /\ ~healthHook.isChecking
    /\ healthCall.state = "resolved"
    /\ healthCall.result.status = "unhealthy"
    /\ healthCall.result.message = "Failed to connect to server: Network Error"

\* C22: the unmount of the session leaves every pending Send pending; when
\* such a Send settles afterwards, the message list, the flags of the
\* session and the store are what they were.
C22_LateResponseAfterUnmountNotApplied ==
    [][ /\ (mounted /\ ~mounted') => inflight' = inflight
        /\ (~mounted /\ inflight' # inflight)
           => /\ messages' = messages
              /\ isLoading' = isLoading
              /\ storage' = storage
              /\ saveCount' = saveCount
              /\ lastSaved' = lastSaved
      ]_vars

\* a Send was pending at the unmount and its answer has arrived since: the
\* list and the stored record end with the user message, the toast of the
\* answer was published
C22_Witness ==
    /\ ~mounted
    /\ lastEvent.op = "resolveUnmounted"
    /\ inflight = {}
    /\ Last(messages).role = "user"
    /\ isLoading
    /\ lastSaved.messages = messages
    /\ currentConversationId \in StoredIds(storage)
    /\ Last(published).type = "success"

\* C23 (as claimed): every pending auto-dismiss timer belongs to a handler
\* that is still registered and to a toast that is still in that handler's
\* list, and every toast with a positive duration in the list of a
\* registered handler has its timer pending.
C23_TimersCancelledWithTheirToast ==
    /\ \A t \in timers :
          /\ t.h \in listeners
          /\ t.id \in ToastIds(toasts[t.h])
    /\ \A h \in listeners :
          \A i \in 1..Len(toasts[h]) :
              toasts[h][i].duration > 0
              => [h |-> h, id |-> toasts[h][i].id] \in timers

\* the container has unmounted, or the user has closed the toast, and the
\* timer of the toast is still armed
C23_Witness ==
    \E t \in timers :
        /\ busEvent.op \in {"unsubscribe", "remove"}
        /\ busEvent.h = t.h
        /\ \/ t.h \in retired
           \/ t.h \in listeners /\ t.id \notin ToastIds(toasts[t.h])

\* C24 (as claimed): after a Send has succeeded, the bubble of the assistant
\* message it appended has the reveal enabled.
C24_AnswerBubbleStartsRevealing ==
    (mounted /\ lastEvent.op = "resolve")
    => /\ Last(messages).role = "assistant"
       /\ bubbles[Last(messages).id]

\* the answer of a Send is shown: the container has taken its id as
\* lastMessageId, and its bubble, mounted in the render before, has the
\* reveal disabled
C24_Witness ==
    /\ mounted
    /\ lastEvent.op = "resolve"
    /\ SettledAlone("resolve")
    /\ Last(messages).role = "assistant"
    /\ ~HasError(Last(messages))
    /\ lastMessageId = Last(messages).id
    /\ IsNew(Last(messages), lastMessageId)
    /\ ~bubbles[Last(messages).id]

\* C25 (as claimed): no control calls sendMessage while isLoading is true,
\* and at most one Send of the session is in flight.
C25_NoSendWhileLoading ==
    [][ /\ sends' # sends => ~isLoading
        /\ Cardinality(inflight') <= 1
      ]_vars

\* the retry button of a failed bubble was clicked while another Send was
\* waiting for its answer
C25_Witness ==
    /\ mounted
    /\ lastEvent.op = "retry"
    /\ isLoading
    /\ Cardinality(inflight) = 2
    /\ \E call \in inflight : call.via = "submit"
    /\ \E call \in inflight : call.via = "retry"

\* the place of a toast in the order of the showToast calls
PublishIndex(log, id) == CHOOSE i \in 1..Len(log) : log[i].id = id

\* C26: showToast numbers its toasts 0, 1, 2, ... in publish order; the list
\* of every handler holds at most maxToasts toasts, no id twice, the later
\* published before the earlier; a showToast call puts its toast first in
\* the list of each registered handler, before the toasts the list had, of
\* which only the last (the oldest) are dropped, and only when the list was
\* full.
C26_ToastListBoundedNewestFirst ==
    [][ /\ \A i \in 1..Len(published') :
              published'[i].id = "toast-" \o ToString(i - 1)
        /\ \A h \in Handlers :
              /\ Len(toasts'[h]) <= MaxToastsOf[h]
              /\ \A i, j \in 1..Len(toasts'[h]) :
                    i < j => PublishIndex(published', toasts'[h][i].id)
                             > PublishIndex(published', toasts'[h][j].id)
              /\ (toastId' # toastId /\ h \in listeners)
                 => /\ toasts'[h][1] = Last(published')
                    /\ IsPrefix(Tail(toasts'[h]), toasts[h])
                    /\ Len(toasts'[h]) =
                          IF Len(toasts[h]) < MaxToastsOf[h]
                          THEN Len(toasts[h]) + 1 ELSE MaxToastsOf[h]
      ]_vars

\* the caller that keeps two toasts has received three: it shows the third
\* and the second, the first was dropped; the container shows all three,
\* the latest first
C26_Witness ==
    /\ received["h2"] = << "toast-0", "toast-1", "toast-2" >>
    /\ ToastIdsOf(toasts["h2"]) = << "toast-2", "toast-1" >>
    /\ ToastIdsOf(toasts["h1"]) = << "toast-2", "toast-1", "toast-0" >>
    /\ busEvent.op = "publish"

\* C27 (as claimed): when a Send settles that was issued under another
\* conversation id than the session has now, the message list and the
\* store stay as they are.
C27_LateResponseStaysOutOfNewConversation ==
    [][ ( /\ mounted
          /\ inflight' # inflight
          /\ lastEvent'.op \in {"resolve", "reject"}
          /\ lastEvent'.arg.call.conversationId # currentConversationId )
        => /\ messages' = messages
           /\ storage' = storage
      ]_vars

\* the answer to a question of the cleared conversation stands after the
\* greeting of the new one, and the record written for the new conversation
\* at its first Send holds it
C27_Witness ==
    /\ mounted
    /\ clears = 1
    /\ lastEvent.op = "submit"
    /\ Len(messages) = 3
    /\ IsGreeting(messages[1])
    /\ Has(messages[2], "responseData")
    /\ messages[2].responseData.conversation_id # currentConversationId
    /\ messages[3].role = "user"
    /\ lastSaved.id = currentConversationId
    /\ Len(lastSaved.messages) = 3
    /\ lastSaved.messages[2].id = messages[2].id
    /\ currentConversationId \in StoredIds(storage)

\* the elements of the array under the storage key, as they are written
RawEntries(raw) ==
    IF raw.kind = "json" /\ raw.value.kind = "array"
    THEN raw.value.items ELSE <<>>

\* the elements that are conversation records with another id than `id`
OtherRecords(raw, id) ==
    { e \in SeqToSet(RawEntries(raw)) :
        e.kind = "object" /\ Has(e.fields, "id") /\ e.fields.id # id }

\* the id a store operation was aimed at
TargetId == IF storeEvent.op = "save" THEN storeEvent.arg.id ELSE storeEvent.arg

\* C28 (as claimed): after saveConversation(c) or deleteConversation(id),
\* every record of the store with another id is in the store as it was.
C28_OtherRecordsUntouched ==
    storeEvent.op \in {"save", "delete"}
    => OtherRecords(storeEvent.before, TargetId)
          \subseteq SeqToSet(RawEntries(storage))

\* the store held the conversation old-c and an entry that does not decode;
\* a save of another conversation has left that conversation alone in the
\* store
C28_Witness ==
    /\ storeEvent.op = "save"
    /\ storeEvent.n = 1
    /\ storeEvent.arg = OtherConversation
    /\ EncodeConversation(OldConversation)
          \in OtherRecords(storeEvent.before, "old-d")
    /\ GetConversationsTry(storeEvent.before).threw
    /\ storage = Stringify(<< OtherConversation >>)

\* C29 (as claimed): a session whose conversation was written to the store
\* and is no longer there (the sidebar has deleted it) does not write it
\* again.
C29_DeletedConversationStaysDeleted ==
    [][ ( /\ mounted
          /\ lastSaved.id = currentConversationId
          /\ currentConversationId' = currentConversationId
          /\ currentConversationId \notin StoredIds(storage) )
        => /\ saveCount' = saveCount
           /\ currentConversationId \notin StoredIds(storage')
      ]_vars

\* the session shows the stored conversation old-c; the sidebar deleted it,
\* its list no longer has it; a message sent since has put the record back
C29_Witness ==
    /\ mounted
    /\ currentConversationId = "old-c"
    /\ lastEvent.opened.found
    /\ "old-c" \notin SeqToSet(sidebarConversations)
    /\ lastEvent.op \in {"submit", "retry", "resolve", "reject"}
    /\ lastSaved.id = "old-c"
    /\ "old-c" \in StoredIds(storage)

\* C30 (as claimed): a write of a conversation that has a record in the
\* store keeps the createdAt of that record, and the step that opens a
\* stored conversation leaves the store as it is.
C30_CreatedAtFixedAtFirstWrite ==
    [][ /\ ( /\ saveCount' # saveCount
             /\ lastSaved'.id \in StoredIds(storage) )
           => \A before \in {Stored(storage, lastSaved'.id)} :
              \A after \in {Stored(storage', lastSaved'.id)} :
                  after.createdAt = before.createdAt
        /\ ( /\ lastEvent'.op = "mount" /\ ~mounted
             /\ lastEvent'.opened.found )
           => storage' = storage
      ]_vars

\* the stored conversation old-c, created at time 1, was opened at time 2
\* and nothing was sent: its record was written again, with createdAt 2
C30_Witness ==
    /\ mounted
    /\ lastEvent.op = "mount"
    /\ lastEvent.opened.found
    /\ sends = 0
    /\ saveCount = 1
    /\ currentConversationId = "old-c"
    /\ OldConversation.createdAt = 1
    /\ Stored(storage, "old-c").createdAt = 2
    /\ Stored(storage, "old-c").messages = OldConversation.messages

=============================================================================
